---- MODULE Spec2Model ----
(***************************************************************************)
(* Allocation model and drift engine of portofino (src/allocation.py) and  *)
(* the caller that feeds it (src/Uploader.py).                             *)
(*                                                                         *)
(* Numbers.  Python floats are modelled by exact extended rationals        *)
(* <<n, d>> with d >= 0 in lowest terms: <<n, d>> with d > 0 is n/d,       *)
(* <<1, 0>> is +inf, <<-1, 0>> is -inf and <<0, 0>> is NaN (what numpy     *)
(* gives for x/0).  Weights are multiples of 1/Den.  Names (tickers,       *)
(* asset classes, categories) are the integers 1..NumNames, ordered as     *)
(* the strings they stand for.                                             *)
(***************************************************************************)
EXTENDS Integers, Sequences, FiniteSets, TLC

\* ------------------------------------------------------------------ bounds
MaxNodes == 4      \* nodes ever constructed in one tree, the root included
NumNames == 2      \* distinct names
Den == 2           \* weights are k/Den
MaxWeight == 2     \* k ranges over 0..MaxWeight
MaxDepthArg == 3   \* max_depth arguments 0..MaxDepthArg
MaxRows == 2       \* rows of a holdings table
MaxTargets == 2    \* pairs of a target-weight sequence
MaxValue == 1      \* current values -1..MaxValue
MaxSourceRows == 1 \* rows of the table the dashboard rebalances
MaxCash == 1       \* cash_to_invest ranges over -MaxCash..MaxCash
MaxObjects == 3    \* AssetClass objects constructed, appended in any way

\* math.isclose(a, b): rel_tol = 1e-09, abs_tol = 0.0
RelTolInv == 1000000000

Names == 1..NumNames
Weights == 0..MaxWeight
None == 0
Unknown == -1      \* the category 'Unknown', which is no node's name

\* ------------------------------------------------------------- arithmetic
Abs(x) == IF x < 0 THEN -x ELSE x
Max(a, b) == IF a >= b THEN a ELSE b
Sgn(x) == IF x > 0 THEN 1 ELSE IF x < 0 THEN -1 ELSE 0

RECURSIVE Gcd(_, _)
Gcd(a, b) == IF b = 0 THEN a ELSE Gcd(b, a % b)

\* The float n/d; d = 0 gives inf, -inf or nan as numpy division does.
Rat(n, d) ==
    IF d = 0 THEN <<Sgn(n), 0>>
    ELSE LET s == IF d < 0 THEN -1 ELSE 1
             g == Gcd(Abs(n), Abs(d))
         IN  <<(s * n) \div g, (s * d) \div g>>

Num(x) == Rat(x, 1)
Zero == <<0, 1>>
One == <<1, 1>>
NaN == <<0, 0>>
IsNaN(a) == a = NaN
IsInf(a) == a[2] = 0 /\ a[1] # 0
IsFinite(a) == a[2] > 0

RatAdd(a, b) ==
    IF IsNaN(a) \/ IsNaN(b) THEN NaN
    ELSE IF IsInf(a) /\ IsInf(b) THEN (IF a = b THEN a ELSE NaN)
    ELSE IF IsInf(a) THEN a
    ELSE IF IsInf(b) THEN b
    ELSE Rat(a[1] * b[2] + b[1] * a[2], a[2] * b[2])

RatNeg(a) == <<-a[1], a[2]>>
RatSub(a, b) == RatAdd(a, RatNeg(b))

RatMul(a, b) ==
    IF IsNaN(a) \/ IsNaN(b) THEN NaN
    ELSE IF IsInf(a) \/ IsInf(b)
         THEN (IF a[1] = 0 \/ b[1] = 0 THEN NaN ELSE <<Sgn(a[1]) * Sgn(b[1]), 0>>)
    ELSE Rat(a[1] * b[1], a[2] * b[2])

\* a / b on float columns (pandas): never raises, x/0 is inf, -inf or nan.
RatDiv(a, b) ==
    IF IsNaN(a) \/ IsNaN(b) THEN NaN
    ELSE IF IsInf(b) THEN (IF IsInf(a) THEN NaN ELSE Zero)
    ELSE IF IsInf(a) THEN (IF b[1] < 0 THEN RatNeg(a) ELSE a)
    ELSE Rat(a[1] * b[2], a[2] * b[1])

\* a < b and a > b as float comparisons (false when either side is nan).
RatLt(a, b) ==
    /\ ~IsNaN(a) /\ ~IsNaN(b)
    /\ IF IsInf(a) \/ IsInf(b)
       THEN a # b /\ (a = <<-1, 0>> \/ b = <<1, 0>>)
       ELSE a[1] * b[2] < b[1] * a[2]
RatGt(a, b) == RatLt(b, a)

RECURSIVE RatSum(_)
RatSum(s) == IF s = <<>> THEN Zero ELSE RatAdd(s[1], RatSum(Tail(s)))

\* math.isclose(a, 1): abs(a - 1) <= rel_tol * max(abs(a), 1), for a = n/d.
\* Over integers |n - d| * RelTolInv <= m is |n - d| <= m \div RelTolInv.
IsCloseToOne(a) ==
    /\ IsFinite(a)
    /\ Abs(a[1] - a[2]) <= Max(Abs(a[1]), a[2]) \div RelTolInv

\* ------------------------------------------------------------------ state
VARIABLES
    nodes,      \* number of Allocation objects constructed; the root is 1
    name,       \* name[n]: self.name
    weight,     \* weight[n]: self.weight, a rational (None for an AssetClass)
    children,   \* children[n]: self.children.values() in dict order
    parent,     \* parent[n]: self.parent, None = 0
    ret         \* the most recent call and what it returned or raised

vars == <<nodes, name, weight, children, parent, ret>>

Root == 1
W(n) == weight[n]

\* ret: a call that is pending, has returned val, or has raised err.
Called(op, arg) ==
    [op |-> op, arg |-> arg, st |-> "called", val |-> <<>>, err |-> <<>>]
Returned(op, arg, val) ==
    [op |-> op, arg |-> arg, st |-> "returned", val |-> val, err |-> <<>>]
Raised(op, arg, err) ==
    [op |-> op, arg |-> arg, st |-> "raised", val |-> <<>>, err |-> err]

\* ----------------------------------------------------------- construction
\* self.children[other.name] = other: a dict keeps the position of a key it
\* already holds and appends a new key.
DictSet(ch, nm, other) ==
    IF \E i \in 1..Len(ch) : name[ch[i]] = nm
    THEN [i \in 1..Len(ch) |-> IF name[ch[i]] = nm THEN other ELSE ch[i]]
    ELSE Append(ch, other)

Init ==
    /\ nodes = 1
    /\ \E nm \in Names, w \in Weights :
        /\ name = <<nm>>
        /\ weight = <<Rat(w, Den)>>
    /\ children = << <<>> >>
    /\ parent = <<None>>
    /\ ret = Returned("init", <<>>, <<>>)

\* p << Allocation(nm, w): Allocation.__init__ then AssetClass.__lshift__
\* (p << AssetClass(nm) when w is None).
LshiftNew(p, nm, w) ==
    LET other == nodes + 1 IN
    /\ nodes' = other
    /\ name' = Append(name, nm)
    /\ weight' = Append(weight, w)
    /\ children' = Append([children EXCEPT ![p] = DictSet(@, nm, other)], <<>>)
    /\ parent' = Append(parent, p)
    /\ ret' = Returned("lshift", <<p, nm, w>>, p)

\* The same, while fewer than MaxNodes objects have been constructed.
Lshift(p, nm, w) ==
    /\ nodes < MaxNodes
    /\ LshiftNew(p, nm, w)

TreeUnchanged == UNCHANGED <<nodes, name, weight, children, parent>>

\* --------------------------------------------------------- AllocationTree
\* f'{x:.4f}': x rounded to 4 decimals (ties to even), as a rational.
Fmt4(a) ==
    LET s == a[1] * 10000
        q == s \div a[2]
        r == s % a[2]
        up == 2 * r > a[2] \/ (2 * r = a[2] /\ q % 2 = 1)
    IN  Rat(IF up THEN q + 1 ELSE q, 10000)

RECURSIVE validate_weights(_), ValidateEach(_)

\* Mutant of ValidateEach: the loop returns after its first child.
ValidateEachFirstOnly(ch) ==
    IF ch = <<>> THEN <<>> ELSE validate_weights(Head(ch))

\* Allocation.validate_weights: one message per node whose children's
\* weights do not sum to 1, the node's own first, then its children's.
validate_weights(self) ==
    IF children[self] = <<>> THEN <<>>
    ELSE LET ch == children[self]
             total_alloc == RatSum([i \in 1..Len(ch) |-> W(ch[i])])
             errors == IF ~IsCloseToOne(total_alloc)
                       THEN << [name |-> name[self],
                                children |-> [i \in 1..Len(ch) |->
                                                 <<name[ch[i]], W(ch[i])>>],
                                total |-> Fmt4(total_alloc),
                                error |-> Fmt4(RatSub(One, total_alloc))] >>
                       ELSE <<>>
         IN  errors \o ValidateEach(ch)

\* for child in self.children.values(): errors.extend(child.validate_weights())
ValidateEach(ch) ==
    IF ch = <<>> THEN <<>>
    ELSE validate_weights(Head(ch)) \o ValidateEach(Tail(ch))

\* Mutant of Scale: the child's weight is not multiplied by self.weight.
ScaleDropsWeight(w, pairs) == pairs

\* [(ticker, self.weight * weight) for ticker, weight in pairs]
Scale(w, pairs) ==
    [i \in 1..Len(pairs) |-> <<pairs[i][1], RatMul(w, pairs[i][2])>>]

RECURSIVE CollectWith(_, _, _, _), CollectEachWith(_, _, _, _, _)

\* Mutant of CollectWith: the depth cut-off is never taken.
CollectWithNoCut(wt, self, max_depth, current_depth) ==
    IF children[self] = <<>>
    THEN << <<name[self], wt[self]>> >>
    ELSE CollectEachWith(wt, self, children[self], max_depth, current_depth)

\* Allocation.collect_weights, node n's self.weight being wt[n].
CollectWith(wt, self, max_depth, current_depth) ==
    IF children[self] = <<>> \/ current_depth = max_depth
    THEN << <<name[self], wt[self]>> >>
    ELSE CollectEachWith(wt, self, children[self], max_depth, current_depth)

\* for child in self.children.values(): weights.extend([...])
CollectEachWith(wt, self, ch, max_depth, current_depth) ==
    IF ch = <<>> THEN <<>>
    ELSE Scale(wt[self], CollectWith(wt, Head(ch), max_depth, current_depth + 1))
         \o CollectEachWith(wt, self, Tail(ch), max_depth, current_depth)

\* Allocation.collect_weights on the weights of the state.
collect_weights(self, max_depth, current_depth) ==
    CollectWith(weight, self, max_depth, current_depth)

get_ticker_weights(self) == collect_weights(self, 2, 0)
get_asset_class_weights(self) == collect_weights(self, 1, 0)

RECURSIVE collect_leaves(_), LeavesEach(_)

\* Allocation.collect_leaves: the childless nodes themselves.
collect_leaves(self) ==
    IF children[self] = <<>> THEN <<self>>
    ELSE LeavesEach(children[self])

LeavesEach(ch) ==
    IF ch = <<>> THEN <<>>
    ELSE collect_leaves(Head(ch)) \o LeavesEach(Tail(ch))

ValidateWeights ==
    /\ ret' = Returned("validate_weights", <<>>, validate_weights(Root))
    /\ TreeUnchanged

CollectWeights(max_depth) ==
    /\ ret' = Returned("collect_weights", <<max_depth>>,
                       collect_weights(Root, max_depth, 0))
    /\ TreeUnchanged

CollectLeaves ==
    /\ ret' = Returned("collect_leaves", <<>>, collect_leaves(Root))
    /\ TreeUnchanged

\* --------------------------------------------------------- DriftAnalyzer
\* A holdings table is a sequence of rows [ticker, asset_class, current_value];
\* key_weights is a sequence of <<category, fraction>> pairs.

Keys(holdings_df, key) == {holdings_df[i][key] : i \in 1..Len(holdings_df)}

\* holdings_df[[key, 'current_value']].groupby([key]).sum(): per key, the sum.
GroupSum(holdings_df, key, k) ==
    LET RECURSIVE Go(_)
        Go(i) == IF i > Len(holdings_df) THEN 0
                 ELSE (IF holdings_df[i][key] = k
                       THEN holdings_df[i].current_value ELSE 0) + Go(i + 1)
    IN  Go(1)

\* result_df['current_value'].sum() + cash_to_invest
Investable(holdings_df, cash_to_invest) ==
    LET RECURSIVE Go(_)
        Go(i) == IF i > Len(holdings_df) THEN 0
                 ELSE holdings_df[i].current_value + Go(i + 1)
    IN  Num(Go(1) + cash_to_invest)

\* sum(percent for _, percent in key_weights)
AllocSum(key_weights) ==
    RatSum([i \in 1..Len(key_weights) |-> key_weights[i][2]])

\* DataFrame.fillna(0) on one cell: nan becomes 0, inf stays.
FillNa(x) == IF IsNaN(x) THEN Zero ELSE x

\* Mutant of Action: the two comparisons are not strict, so zero drift buys.
ActionNotStrict(dv) ==
    IF ~RatGt(dv, Zero) THEN "Buy" ELSE "Sell"

\* '🟢 Buy' if dv < 0 else '🔴 Sell' if dv > 0 else '⏸️ Hold'
Action(dv) ==
    IF RatLt(dv, Zero) THEN "Buy" ELSE IF RatGt(dv, Zero) THEN "Sell" ELSE "Hold"

\* One row of the merged frame and the columns computed from it.  cv, ca and
\* ta are the joined cells before fillna (nan where the side has no such key).
DriftRow(k, cv, ca, ta, investable) ==
    LET current_value == FillNa(cv)
        current_alloc == FillNa(ca)
        target_alloc == FillNa(ta)
        drift_value == RatSub(current_value, RatMul(target_alloc, investable))
    IN  [key |-> k,
         current_value |-> current_value,
         current_alloc |-> current_alloc,
         target_alloc |-> target_alloc,
         target_pct |-> RatMul(target_alloc, Num(100)),
         drift |-> RatSub(current_alloc, target_alloc),
         drift_value |-> drift_value,
         target_value |-> RatSub(current_value, drift_value),
         action |-> Action(drift_value)]

\* result_df.merge(desired_allocation_df, how='outer', on=key): the union of
\* the keys in sorted order; a key of the left frame (unique after groupby)
\* pairs with every row of the right frame that has that key, in order.
Merge(holdings_df, key, key_weights, investable) ==
    LET held == Keys(holdings_df, key)
        Left(k) == IF k \in held
                   THEN <<Num(GroupSum(holdings_df, key, k)),
                          RatDiv(Num(GroupSum(holdings_df, key, k)), investable)>>
                   ELSE <<NaN, NaN>>
        Right(k) == SelectSeq(key_weights, LAMBDA kw : kw[1] = k)
        RowsOf(k) ==
            IF Right(k) = <<>>
            THEN (IF k \in held
                  THEN << DriftRow(k, Left(k)[1], Left(k)[2], NaN, investable) >>
                  ELSE <<>>)
            ELSE [i \in 1..Len(Right(k)) |->
                     DriftRow(k, Left(k)[1], Left(k)[2], Right(k)[i][2], investable)]
        RECURSIVE Go(_)
        Go(k) == IF k > NumNames THEN <<>> ELSE RowsOf(k) \o Go(k + 1)
    IN  Go(0)

\* Mutant of analyze_allocation: only an over-allocation is rejected.
analyze_allocation_over_only(holdings_df, key, key_weights, cash_to_invest) ==
    LET investable == Investable(holdings_df, cash_to_invest)
        alloc_sum == AllocSum(key_weights)
    IN  IF RatGt(alloc_sum, One)
        THEN [raised |-> TRUE, alloc_sum |-> alloc_sum, rows |-> <<>>]
        ELSE [raised |-> FALSE, alloc_sum |-> alloc_sum,
              rows |-> Merge(holdings_df, key, key_weights, investable)]

\* analyze_allocation: [raised |-> TRUE, alloc_sum] for the ValueError,
\* [raised |-> FALSE, rows] for the returned frame.
analyze_allocation(holdings_df, key, key_weights, cash_to_invest) ==
    LET investable == Investable(holdings_df, cash_to_invest)
        alloc_sum == AllocSum(key_weights)
    IN  IF ~IsCloseToOne(alloc_sum)
        THEN [raised |-> TRUE, alloc_sum |-> alloc_sum, rows |-> <<>>]
        ELSE [raised |-> FALSE, alloc_sum |-> alloc_sum,
              rows |-> Merge(holdings_df, key, key_weights, investable)]

Result(op, arg, r) ==
    IF r.raised THEN Raised(op, arg, [type |-> "ValueError", alloc_sum |-> r.alloc_sum])
    ELSE Returned(op, arg, r.rows)

Values == -1..MaxValue
Cash == -MaxCash..MaxCash
Fractions == {Rat(k, Den) : k \in Weights}

RECURSIVE SeqsUpTo(_, _)
SeqsUpTo(S, n) ==
    IF n = 0 THEN {<<>>}
    ELSE LET shorter == SeqsUpTo(S, n - 1)
         IN  shorter \cup {Append(s, x) : s \in shorter, x \in S}

HoldingRows ==
    [ticker : Names, asset_class : {1}, current_value : Values]

\* The pending call analyze_allocation(holdings_df, 'ticker', key_weights,
\* cash_to_invest) runs to its return or its raise.
AnalyzeAllocation ==
    /\ ret.op = "analyze_allocation" /\ ret.st = "called"
    /\ ret' = Result(ret.op, ret.arg,
                     analyze_allocation(ret.arg[1], "ticker", ret.arg[2], ret.arg[3]))
    /\ TreeUnchanged

\* -------------------------------------------------------------- dashboard
\* Allocation.to_df: a row (leaf.parent.name, leaf.name, weights[leaf.name])
\* per leaf, weights being the dict of collect_weights(2, 0) (a later pair
\* replaces an earlier one of the same name).  The comprehension raises at
\* the first leaf without a parent (AttributeError) or without an entry in
\* the dict (KeyError).
to_df(self) ==
    LET pairs == collect_weights(self, 2, 0)
        leaves == collect_leaves(self)
        Has(k) == \E i \in 1..Len(pairs) : pairs[i][1] = k
        Get(k) == pairs[CHOOSE i \in 1..Len(pairs) :
                            /\ pairs[i][1] = k
                            /\ \A j \in (i + 1)..Len(pairs) : pairs[j][1] # k][2]
        Fails(i) == parent[leaves[i]] = None \/ ~Has(name[leaves[i]])
    IN  IF \E i \in 1..Len(leaves) : Fails(i)
        THEN LET i == CHOOSE i \in 1..Len(leaves) :
                          Fails(i) /\ \A j \in 1..(i - 1) : ~Fails(j)
             IN  [raised |-> TRUE,
                  type |-> IF parent[leaves[i]] = None
                           THEN "AttributeError" ELSE "KeyError",
                  rows |-> <<>>]
        ELSE [raised |-> FALSE, type |-> "",
              rows |-> [i \in 1..Len(leaves) |->
                           [category |-> name[parent[leaves[i]]],
                            ticker |-> name[leaves[i]],
                            weight |-> Get(name[leaves[i]])]]]

\* target_allocation.to_df() called on the root.
ToDf ==
    /\ LET df == to_df(Root) IN
        ret' = IF df.raised THEN Raised("to_df", <<>>, [type |-> df.type])
               ELSE Returned("to_df", <<>>, df.rows)
    /\ TreeUnchanged

\* The rows the dashboard keeps for rebalancing, Uploader.py lines 77-79:
\* positions whose ticker is in target_allocation.to_df()['ticker'], each
\* tagged with an asset class.
SourceRows(tickers) ==
    [ticker : tickers, asset_class : Names, current_value : Values]

DashboardStarted == ret.op \in {"visualize_drift_ticker", "visualize_drift_asset_class",
                                "to_df"}

\* Uploader.py up to its first visualize_drift call (line 127): to_df() of
\* the target tree, the rebalanced table, then analyze_allocation on the
\* ticker weights.  An exception ends the script run.
VisualizeDriftTicker ==
    /\ ~DashboardStarted
    /\ LET df == to_df(Root) IN
        IF df.raised
        THEN ret' = Raised("to_df", <<>>, [type |-> df.type])
        ELSE \E source_df \in SeqsUpTo(
                     SourceRows({df.rows[i].ticker : i \in 1..Len(df.rows)}),
                     MaxSourceRows),
                cash_to_invest \in Cash :
                 ret' = Result("visualize_drift_ticker", <<source_df, cash_to_invest>>,
                               analyze_allocation(source_df, "ticker",
                                                  get_ticker_weights(Root),
                                                  cash_to_invest))
    /\ TreeUnchanged

\* The second visualize_drift call (line 128), reached when the first one
\* returned: the same table and cash, grouped by asset class.
VisualizeDriftAssetClass ==
    /\ ret.op = "visualize_drift_ticker" /\ ret.st = "returned"
    /\ ret' = Result("visualize_drift_asset_class", ret.arg,
                     analyze_allocation(ret.arg[1], "asset_class",
                                        get_asset_class_weights(Root), ret.arg[2]))
    /\ TreeUnchanged

\* --------------------------------------------------------- classification
RECURSIVE search(_, _), SearchEach(_, _)

\* AssetClass.search: the node itself, else the first hit among the children
\* in dict order, else None.
search(self, nm) ==
    IF name[self] = nm THEN self
    ELSE IF children[self] = <<>> THEN None
    ELSE SearchEach(children[self], nm)

SearchEach(ch, nm) ==
    IF ch = <<>> THEN None
    ELSE LET found_node == search(Head(ch), nm)
         IN  IF found_node # None THEN found_node ELSE SearchEach(Tail(ch), nm)

RECURSIVE HierarchyFrom(_)

\* The while loop of hierarchy() from a given parent, reversed.
HierarchyFrom(p) ==
    IF p = None THEN <<>> ELSE Append(HierarchyFrom(parent[p]), name[p])

\* AssetClass.hierarchy: the ancestors' names, root first, self excluded.
hierarchy(self) == HierarchyFrom(parent[self])

\* get_asset_class(ticker) against the taxonomy rooted at asset_classes:
\* hierarchy()[1] is the second entry of the list, an IndexError when the
\* list has fewer than two.
get_asset_class(asset_classes, ticker) ==
    LET asset_class == search(asset_classes, ticker) IN
    IF asset_class = None THEN [raised |-> FALSE, val |-> Unknown]
    ELSE LET h == hierarchy(asset_class) IN
         IF Len(h) >= 2 THEN [raised |-> FALSE, val |-> h[2]]
         ELSE [raised |-> TRUE, val |-> "IndexError"]

GetAssetClass(asset_classes, ticker) ==
    /\ LET r == get_asset_class(asset_classes, ticker) IN
        ret' = IF r.raised
               THEN Raised("get_asset_class", <<ticker>>, [type |-> r.val])
               ELSE Returned("get_asset_class", <<ticker>>, r.val)
    /\ TreeUnchanged

\* ---------------------------------------------------------- specifications
Next ==
    \/ \E p \in 1..nodes, nm \in Names, w \in Weights : Lshift(p, nm, Rat(w, Den))
    \/ ValidateWeights
    \/ \E max_depth \in 0..MaxDepthArg : CollectWeights(max_depth)
    \/ CollectLeaves
    \/ ToDf
    \/ \E ticker \in Names : GetAssetClass(Root, ticker)

Spec == Init /\ [][Next]_vars

\* The shipped root, Allocation('Global', 1.0), and a call of
\* analyze_allocation with any table, any target weights and any cash.
InitAnalyze ==
    /\ nodes = 1
    /\ name = <<1>>
    /\ weight = <<One>>
    /\ children = << <<>> >>
    /\ parent = <<None>>
    /\ \E holdings_df \in SeqsUpTo(HoldingRows, MaxRows),
          key_weights \in SeqsUpTo(Names \X Fractions, MaxTargets),
          cash_to_invest \in Cash :
            ret = Called("analyze_allocation",
                         <<holdings_df, key_weights, cash_to_invest>>)

NextAnalyze == AnalyzeAllocation

SpecAnalyze == InitAnalyze /\ [][NextAnalyze]_vars

\* The dashboard script: the target tree is built, then drift is shown.
NextDrift ==
    \/ ~DashboardStarted /\ \E p \in 1..nodes, nm \in Names, w \in Weights : Lshift(p, nm, Rat(w, Den))
    \/ VisualizeDriftTicker
    \/ VisualizeDriftAssetClass

SpecDrift == Init /\ [][NextDrift]_vars

\* ------------------------------------------------------------ AssetClass
\* AssetClass(nm): a node of its own, with no parent and no children.
AssetClassInit(nm) ==
    /\ nodes' = nodes + 1
    /\ name' = Append(name, nm)
    /\ weight' = Append(weight, None)
    /\ children' = Append(children, <<>>)
    /\ parent' = Append(parent, None)
    /\ ret' = Returned("AssetClass", <<nm>>, nodes + 1)

\* The same, while fewer than MaxObjects objects have been constructed.
NewAssetClass(nm) ==
    /\ nodes < MaxObjects
    /\ AssetClassInit(nm)

\* self << other, for any two objects there are (self = other included):
\* other goes under its name in self.children, other.parent becomes self,
\* and nothing else is touched.
LshiftObject(self, other) ==
    /\ children' = [children EXCEPT ![self] = DictSet(@, name[other], other)]
    /\ parent' = [parent EXCEPT ![other] = self]
    /\ ret' = Returned("lshift", <<self, other>>, self)
    /\ UNCHANGED <<nodes, name, weight>>

InitAppend ==
    /\ nodes = 1
    /\ \E nm \in Names : name = <<nm>>
    /\ weight = <<None>>
    /\ children = << <<>> >>
    /\ parent = <<None>>
    /\ ret = Returned("AssetClass", <<name[1]>>, 1)

NextAppend ==
    \/ \E nm \in Names : NewAssetClass(nm)
    \/ \E self \in 1..nodes, other \in 1..nodes : LshiftObject(self, other)

SpecAppend == InitAppend /\ [][NextAppend]_vars

\* ------------------------------------------------------- the shipped trees
\* Mutant of Rshift: the first child, whatever name is asked for.
RshiftFirstChild(self, other) ==
    IF children[self] = <<>> THEN None ELSE children[self][1]

\* self >> other: self.children[other], None here where python raises
\* KeyError.
Rshift(self, other) ==
    LET hits == {i \in 1..Len(children[self]) : name[children[self][i]] = other}
    IN  IF hits = {} THEN None ELSE children[self][CHOOSE i \in hits : TRUE]

\* The statements of create_global_allocation() after its first, in order:
\* <<>>, nm, w for global_allocation << Allocation(nm, w), and <<cls>>, nm, w
\* for global_allocation >> cls << Allocation(nm, w).
create_global_allocation ==
    <<
        <<<<>>, "US Equities", Rat(42, 100)>>,
        <<<<>>, "Intl Equities", Rat(21, 100)>>,
        <<<<>>, "US Bonds", Rat(20, 100)>>,
        <<<<>>, "EM Equities", Rat(6, 100)>>,
        <<<<>>, "US Real Estate", Rat(5, 100)>>,
        <<<<>>, "Short-Term", Rat(6, 100)>>,
        <<<<"US Equities">>, "ITOT", Rat(44, 100)>>,
        <<<<"US Equities">>, "AVUV", Rat(18, 100)>>,
        <<<<"US Equities">>, "QQQM", Rat(18, 100)>>,
        <<<<"US Equities">>, "COWZ", Rat(8, 100)>>,
        <<<<"US Equities">>, "SCHD", Rat(4, 100)>>,
        <<<<"US Equities">>, "OMFL", Rat(8, 100)>>,
        <<<<"US Equities">>, "QQQJ", Rat(0, 100)>>,
        <<<<"Intl Equities">>, "VEA", Rat(45, 100)>>,
        <<<<"Intl Equities">>, "DXJ", Rat(5, 100)>>,
        <<<<"Intl Equities">>, "HEFA", Rat(10, 100)>>,
        <<<<"Intl Equities">>, "AVDV", Rat(20, 100)>>,
        <<<<"Intl Equities">>, "DFIV", Rat(20, 100)>>,
        <<<<"EM Equities">>, "SPEM", Rat(40, 100)>>,
        <<<<"EM Equities">>, "AVES", Rat(40, 100)>>,
        <<<<"EM Equities">>, "XCEM", Rat(20, 100)>>,
        <<<<"US Bonds">>, "VTEB", Rat(42, 100)>>,
        <<<<"US Bonds">>, "VWIUX", Rat(22, 100)>>,
        <<<<"US Bonds">>, "VWALX", Rat(11, 100)>>,
        <<<<"US Bonds">>, "JAAA", Rat(1, 100)>>,
        <<<<"US Bonds">>, "ICLO", Rat(1, 100)>>,
        <<<<"US Bonds">>, "Treasury", Rat(13, 100)>>,
        <<<<"US Bonds">>, "CD", Rat(10, 100)>>,
        <<<<"Short-Term">>, "TFLO", Rat(50, 100)>>,
        <<<<"Short-Term">>, "FLOT", Rat(25, 100)>>,
        <<<<"Short-Term">>, "JMST", Rat(25, 100)>>,
        <<<<"Short-Term">>, "TBIL", Rat(0, 100)>>,
        <<<<"Short-Term">>, "Money Market", Rat(0, 100)>>,
        <<<<"US Real Estate">>, "VGSLX", Rat(50, 100)>>,
        <<<<"US Real Estate">>, "AVRE", Rat(50, 100)>>
    >>

\* asset_classes << AssetClass(nm), one per first-tier class.
AssetClassNames ==
    <<
        "US Equities",
        "Intl Equities",
        "EM Equities",
        "US Bonds",
        "Short-Term",
        "US Real Estate",
        "Alternatives"
    >>

\* mapping: the tickers of each class, in dict order.
mapping ==
    <<
        <<"US Equities",
          <<"FXAIX", "ITOT", "AVUV", "QQQM", "QQQJ", "COWZ", "SCHD", "OMFL",
            "AAPL", "ABNB", "ADBE", "AMZN", "AMD", "BRKB", "CELH", "CRM",
            "GOOG", "GOOGL", "KVUE", "META", "MNST", "MSFT", "NET", "NVDA",
            "RXRX", "SOXX", "TEAM", "TSLA", "TTD">>>>,
        <<"Intl Equities",
          <<"VEA", "DXJ", "HEFA", "AVDV", "DFIV", "ASML", "SHOP", "NVO",
            "TSM">>>>,
        <<"EM Equities",
          <<"SPEM", "AVES", "XCEM">>>>,
        <<"US Bonds",
          <<"PFXF", "VTEB", "VWIUX", "VWALX", "BND", "FBND", "JAAA", "ICLO",
            "CD", "Treasury">>>>,
        <<"Short-Term",
          <<"TFLO", "FLOT", "JMST", "TBIL", "Money Market", "VMSXX">>>>,
        <<"US Real Estate",
          <<"VGSLX", "AVRE">>>>,
        <<"Alternatives",
          <<"CTA", "DBMF", "KMLM">>>>
    >>

RECURSIVE MappingItems(_)

\* for asset_class, tickers in mapping.items(): for ticker in tickers: the
\* pairs <<asset_class, ticker>> in the order the loops visit them.
MappingItems(m) ==
    IF m = <<>> THEN <<>>
    ELSE [i \in 1..Len(Head(m)[2]) |-> <<Head(m)[1], Head(m)[2][i]>>]
         \o MappingItems(Tail(m))

\* The taxonomy's root, constructed once the target tree's nodes are.
asset_classes == Len(create_global_allocation) + 2

\* Every constructor call after Allocation('Global', 1.0), as root, under,
\* nm, w: the new node is appended to root (root >> under[1] when under is
\* not empty); root = None is AssetClass('Global'), appended to nothing.
ShippedScript ==
    [i \in 1..Len(create_global_allocation) |->
        [root |-> Root,
         under |-> create_global_allocation[i][1],
         nm |-> create_global_allocation[i][2],
         w |-> create_global_allocation[i][3]]]
    \o << [root |-> None, under |-> <<>>, nm |-> "Global", w |-> None] >>
    \o [i \in 1..Len(AssetClassNames) |->
        [root |-> asset_classes, under |-> <<>>, nm |-> AssetClassNames[i],
         w |-> None]]
    \o [i \in 1..Len(MappingItems(mapping)) |->
        [root |-> asset_classes,
         under |-> <<MappingItems(mapping)[i][1]>>,
         nm |-> MappingItems(mapping)[i][2],
         w |-> None]]

\* global_allocation = Allocation('Global', 1.0)
InitShipped ==
    /\ nodes = 1
    /\ name = <<"Global">>
    /\ weight = <<Rat(100, 100)>>
    /\ children = << <<>> >>
    /\ parent = <<None>>
    /\ ret = Returned("init", <<>>, <<>>)

\* Both trees are complete.
Built == nodes = Len(ShippedScript) + 1 /\ ret.st # "raised"

\* The next constructor call of the script; a >> that finds no such child
\* raises KeyError and ends the run.
ShippedStep ==
    /\ nodes <= Len(ShippedScript)
    /\ ret.st # "raised"
    /\ LET s == ShippedScript[nodes]
           self == IF s.under = <<>> THEN s.root ELSE Rshift(s.root, s.under[1])
       IN  IF s.root = None THEN AssetClassInit(s.nm)
           ELSE IF self = None
           THEN /\ ret' = Raised("rshift", <<s.root, s.under[1]>>,
                                 [type |-> "KeyError"])
                /\ TreeUnchanged
           ELSE LshiftNew(self, s.nm, s.w)

\* The target tree's leaf tickers: the 'ticker' column of to_df().
TargetTickers ==
    LET leaves == collect_leaves(Root)
    IN  {name[leaves[i]] : i \in 1..Len(leaves)}

\* The script builds the trees; the dashboard then queries the target tree
\* and classifies the target's tickers.
NextShipped ==
    \/ ShippedStep
    \/ Built /\ ValidateWeights
    \/ Built /\ \E max_depth \in {1, 2} : CollectWeights(max_depth)
    \/ Built /\ CollectLeaves
    \/ Built /\ ToDf
    \/ Built /\ \E ticker \in TargetTickers : GetAssetClass(asset_classes, ticker)

SpecShipped == InitShipped /\ [][NextShipped]_vars

\* ------------------------------------------------------------ tree shape
\* Read off the parent back-references and the children mappings, not by the
\* recursions above.

\* Depth-first pre-order, children in dict order, with an explicit stack.
RECURSIVE PreOrderFrom(_)
PreOrderFrom(stack) ==
    IF stack = <<>> THEN <<>>
    ELSE <<Head(stack)>> \o PreOrderFrom(children[Head(stack)] \o Tail(stack))

PreOrder == PreOrderFrom(<<Root>>)
InTree == {PreOrder[i] : i \in 1..Len(PreOrder)}

RECURSIVE Depth(_)
Depth(n) == IF parent[n] = None THEN 0 ELSE 1 + Depth(parent[n])

TreeDepth == CHOOSE d \in 0..nodes :
                 /\ \A n \in InTree : Depth(n) <= d
                 /\ \E n \in InTree : Depth(n) = d

\* The node's weight times the weights of all its ancestors, the root included.
RECURSIVE PathProduct(_)
PathProduct(n) ==
    IF parent[n] = None THEN weight[n]
    ELSE RatMul(weight[n], PathProduct(parent[n]))

IsLeaf(n) == children[n] = <<>>

RECURSIVE IntSum(_)
IntSum(s) == IF s = <<>> THEN 0 ELSE Head(s) + IntSum(Tail(s))

\* The direct children's weights of n sum to 1.0 within isclose's tolerance.
ChildrenSumToOne(n) ==
    LET Units(c) == weight[c][1] * (Den \div weight[c][2])
        total == IntSum([i \in 1..Len(children[n]) |-> Units(children[n][i])])
    IN  Abs(total - Den) <= Max(total, Den) \div RelTolInv

Violates(n) == ~IsLeaf(n) /\ ~ChildrenSumToOne(n)
TreeIsValid == \A n \in InTree : ~Violates(n)

\* --------------------------------------------------------------- claims

\* C1: validate_weights() on the root returns (never raises) exactly one
\* entry for each node that has children whose weights do not sum to 1.0,
\* in depth-first pre-order; it is empty iff no node with children violates.
C1_ValidateWeights ==
    ret.op = "validate_weights" =>
        LET bad == SelectSeq(PreOrder, Violates) IN
        /\ ret.st = "returned"
        /\ Len(ret.val) = Len(bad)
        /\ \A i \in 1..Len(bad) :
            /\ ret.val[i].name = name[bad[i]]
            /\ ret.val[i].children =
                   [j \in 1..Len(children[bad[i]]) |->
                       <<name[children[bad[i]][j]],
                         weight[children[bad[i]][j]]>>]
        /\ (ret.val = <<>>) <=> TreeIsValid

\* C1 witness: validate_weights() on the root has returned two entries for
\* a tree in which a node below the root, with children, violates.
C1_Witness ==
    /\ ret.op = "validate_weights"
    /\ Len(ret.val) = 2
    /\ \E n \in InTree : ~IsLeaf(n) /\ n # Root /\ Violates(n)

\* C2: collect_weights(maxDepth, 0) on the root returns, in depth-first
\* order, one pair (name, product of the weights from the node up to and
\* including the root) for every node that is childless at depth <= maxDepth
\* or sits at depth maxDepth; for maxDepth >= tree depth the pairs match
\* collect_leaves() one to one, and collect_leaves() is the childless nodes.
C2_Cut(max_depth) ==
    SelectSeq(PreOrder, LAMBDA n : \/ IsLeaf(n) /\ Depth(n) <= max_depth
                                   \/ Depth(n) = max_depth)

C2_CollectWeights ==
    /\ ret.op = "collect_weights" =>
        LET cut == C2_Cut(ret.arg[1]) IN
        /\ ret.st = "returned"
        /\ Len(ret.val) = Len(cut)
        /\ \A i \in 1..Len(cut) :
               ret.val[i] = <<name[cut[i]], PathProduct(cut[i])>>
        /\ ret.arg[1] >= TreeDepth =>
            /\ Len(ret.val) = Len(collect_leaves(Root))
            /\ \A i \in 1..Len(ret.val) :
                   ret.val[i] = <<name[collect_leaves(Root)[i]],
                                  PathProduct(collect_leaves(Root)[i])>>
    /\ ret.op = "collect_leaves" =>
        /\ ret.st = "returned"
        /\ ret.val = SelectSeq(PreOrder, IsLeaf)

\* C2 witness: a tree of depth 2 with two leaves was collected at a
\* max_depth that cuts it, so a node with children is reported.
C2_Witness ==
    /\ ret.op = "collect_weights"
    /\ ret.arg[1] = 1 /\ TreeDepth = 2
    /\ Len(ret.val) = 2
    /\ \E i \in 1..2 : ret.val[i][2] = <<1, 4>>

\* C3 (as claimed): for a valid tree of depth exactly 2 the weights of
\* collect_weights(2, 0) on the root sum to 1.0 within tolerance.
C3_SumIsOne ==
    (/\ ret.op = "collect_weights" /\ ret.arg[1] = 2
     /\ TreeDepth = 2 /\ TreeIsValid)
    => IsCloseToOne(RatSum([i \in 1..Len(ret.val) |-> ret.val[i][2]]))

\* ---------------------------------------------- claims on analyze_allocation
\* The inputs of the call in ret, read without the operators of the engine.
IsAnalysis == ret.op = "analyze_allocation" /\ ret.st # "called"
InHoldings == ret.arg[1]
InTargets == ret.arg[2]
InCash == ret.arg[3]

Held == {InHoldings[i].ticker : i \in 1..Len(InHoldings)}
Targeted == {InTargets[i][1] : i \in 1..Len(InTargets)}

\* v: the summed current value of category c, 0 if it is not held.
HeldValue(c) ==
    IntSum([i \in 1..Len(InHoldings) |->
               IF InHoldings[i].ticker = c THEN InHoldings[i].current_value ELSE 0])

\* investable = sum of all current values + cash_to_invest
InInvestable ==
    IntSum([i \in 1..Len(InHoldings) |-> InHoldings[i].current_value]) + InCash

\* The target fractions in units of 1/Den, and their sum.
TargetUnits(i) == InTargets[i][2][1] * (Den \div InTargets[i][2][2])
TargetTotal == IntSum([i \in 1..Len(InTargets) |-> TargetUnits(i)])
TargetsSumToOne == Abs(TargetTotal - Den) <= Max(TargetTotal, Den) \div RelTolInv

RowsOfCategory(c) == SelectSeq(ret.val, LAMBDA r : r.key = c)

\* C4 (as claimed): when analyze_allocation returns, every row of a category
\* with summed value v and target fraction t (0 if untargeted) has
\* current_alloc = v / investable, target_pct = 100 t, drift = v / investable
\* - t, drift_value = v - t investable, target_value = t investable, and
\* action Buy, Sell or Hold as drift_value is < 0, > 0 or 0.  The quotient is
\* taken as the float quotient, so that x/0 is inf or nan.
C4_RowFormulas ==
    (IsAnalysis /\ ret.st = "returned") =>
        \A i \in 1..Len(ret.val) :
            LET r == ret.val[i]
                v == Num(HeldValue(r.key))
                t == r.target_alloc
                inv == Num(InInvestable)
                dv == RatSub(v, RatMul(t, inv))
            IN  /\ IF r.key \in Targeted
                   THEN \E j \in 1..Len(InTargets) : InTargets[j] = <<r.key, t>>
                   ELSE t = Zero
                /\ r.current_value = v
                /\ r.current_alloc = RatDiv(v, inv)
                /\ r.target_pct = RatMul(Num(100), t)
                /\ r.drift = RatSub(RatDiv(v, inv), t)
                /\ r.drift_value = dv
                /\ r.target_value = RatMul(t, inv)
                /\ r.action = (IF dv[1] < 0 THEN "Buy"
                               ELSE IF dv[1] > 0 THEN "Sell" ELSE "Hold")

\* C5 (as claimed): every category of the holdings or of the target weights
\* appears in exactly one row, and no other category appears.
C5_ExactlyOneRow ==
    (IsAnalysis /\ ret.st = "returned") =>
        /\ \A c \in Held \cup Targeted : Len(RowsOfCategory(c)) = 1
        /\ \A i \in 1..Len(ret.val) : ret.val[i].key \in Held \cup Targeted

\* C6: analyze_allocation raises the invalid-target error, carrying the
\* computed sum and returning no rows, iff the target fractions do not sum
\* to 1.0 within tolerance.
C6_InvalidTarget ==
    IsAnalysis =>
        /\ ret.st = "raised" <=> ~TargetsSumToOne
        /\ ret.st = "raised" =>
            /\ ret.err.type = "ValueError"
            /\ ret.err.alloc_sum = Rat(TargetTotal, Den)
            /\ ret.val = <<>>
        /\ ret.st = "returned" => ret.err = <<>>

\* C6 witness: targets summing to 1/2 were rejected with that sum, although
\* the holdings table is not empty.
C6_Witness ==
    /\ IsAnalysis /\ ret.st = "raised"
    /\ ret.err.alloc_sum = <<1, 2>>
    /\ InHoldings # <<>>

\* C7 (as claimed): when investable is 0 and some category has a nonzero
\* target fraction, analyze_allocation fails instead of returning rows
\* (whatever the class of the error: the claim asks for a division-by-zero
\* class, and already a plain failure is not what happens).
C7_ZeroInvestableFails ==
    (/\ IsAnalysis /\ InInvestable = 0
     /\ \E j \in 1..Len(InTargets) : InTargets[j][2] # Zero)
    => ret.st = "raised"

\* C8 (as claimed): with target weights summing to 1.0 and no cash to
\* invest, the drift_value of the returned rows sums to 0.
C8_DriftIsZeroSum ==
    (IsAnalysis /\ ret.st = "returned" /\ InCash = 0) =>
        RatSum([i \in 1..Len(ret.val) |-> ret.val[i].drift_value]) = Zero

\* C9 (as claimed): a category of the holdings that is not in the target
\* weights has a row with target fraction 0, drift_value equal to its summed
\* current value, and action Sell.
C9_UntargetedSells ==
    (IsAnalysis /\ ret.st = "returned") =>
        \A c \in Held \ Targeted :
            /\ Len(RowsOfCategory(c)) = 1
            /\ LET r == RowsOfCategory(c)[1] IN
                /\ r.target_alloc = Zero
                /\ r.drift_value = Num(HeldValue(c))
                /\ r.action = "Sell"

\* C9 (amended): such a category has one row with target fraction 0 and
\* drift_value equal to its summed current value; its action is Sell when
\* that value is positive, Hold when it is zero and Buy when it is negative.
C9_UntargetedBySign ==
    (IsAnalysis /\ ret.st = "returned") =>
        \A c \in Held \ Targeted :
            /\ Len(RowsOfCategory(c)) = 1
            /\ LET r == RowsOfCategory(c)[1] IN
                /\ r.target_alloc = Zero
                /\ r.drift_value = Num(HeldValue(c))
                /\ r.action = (IF HeldValue(c) > 0 THEN "Sell"
                               ELSE IF HeldValue(c) = 0 THEN "Hold" ELSE "Buy")

\* C9 witness: the analysis returned rows for holdings with an untargeted
\* category of zero value, which holds, next to a targeted one.
C9_Witness ==
    /\ IsAnalysis /\ ret.st = "returned"
    /\ \E c \in Held \ Targeted :
        /\ HeldValue(c) = 0
        /\ RowsOfCategory(c)[1].action = "Hold"
    /\ Held \cap Targeted # {}

\* ------------------------------------------------------ claims on the caller

\* C10 (as claimed): target weights derived from a tree whose
\* validate_weights() is not empty are never accepted by the drift analysis:
\* no visualize_drift call on such a tree returns drift rows.
C10_InvalidTreeRejected ==
    (/\ ret.op \in {"visualize_drift_ticker", "visualize_drift_asset_class"}
     /\ ret.st = "returned")
    => validate_weights(Root) = <<>>

\* ------------------------------------------------------- claims on the tree

\* C11 (as claimed): to_df() emits one row per leaf, in collect_leaves()
\* order, (immediate parent's name, leaf name, that leaf's weight in
\* collect_weights(2, 0)); when some leaf's name does not appear in
\* collect_weights(2, 0) it fails with a lookup error instead.
C11_ToDfRows ==
    ret.op = "to_df" =>
        LET leaves == SelectSeq(PreOrder, IsLeaf)
            cut == C2_Cut(2)
            Appears(l) == \E i \in 1..Len(cut) : name[cut[i]] = name[l]
        IN  IF \E i \in 1..Len(leaves) : ~Appears(leaves[i])
            THEN ret.st = "raised" /\ ret.err.type = "KeyError"
            ELSE /\ ret.st = "returned"
                 /\ Len(ret.val) = Len(leaves)
                 /\ \A i \in 1..Len(leaves) :
                        /\ ret.val[i].category = name[parent[leaves[i]]]
                        /\ ret.val[i].ticker = name[leaves[i]]
                        /\ ret.val[i].weight = PathProduct(leaves[i])

\* The nodes stored in p's children mapping.
Stored(p) == {children[p][i] : i \in 1..Len(children[p])}

\* The second half of C12 alone: right after p << c exactly one child of p
\* carries c's name, and it is c (last write wins).
C12_LastWriteWins ==
    ret.op = "lshift" =>
        LET p == ret.arg[1]
            c == ret.arg[2]
            same == {i \in 1..Len(children[p]) : name[children[p][i]] = name[c]}
        IN  Cardinality(same) = 1 /\ \A i \in same : children[p][i] = c

\* C12 (as claimed): after any sequence of parent << child, every node stored
\* in a children mapping has that parent as its back-reference and is stored
\* in no other node's children mapping; and re-appending under a name that is
\* taken leaves exactly one child under that name, the last one appended.
C12_SingleOwner ==
    /\ \A p \in 1..nodes : \A c \in Stored(p) :
        /\ parent[c] = p
        /\ \A q \in (1..nodes) \ {p} : c \notin Stored(q)
    /\ C12_LastWriteWins

\* The nodes named nm, in depth-first pre-order.
Named(nm) == SelectSeq(PreOrder, LAMBDA n : name[n] = nm)

\* The first half of C13 alone: search(name) is the first node in pre-order
\* with that name, None when there is none.
C13_SearchIsFirstInPreOrder ==
    \A nm \in Names :
        search(Root, nm) = IF Named(nm) = <<>> THEN None ELSE Named(nm)[1]

\* C13 (as claimed): classifying a ticker never fails; a ticker found by
\* search (first node in pre-order with that name) is tagged with the name of
\* that node's immediate parent, a ticker not found with 'Unknown'.
C13_ClassifyNeverFails ==
    ret.op = "get_asset_class" =>
        /\ ret.st = "returned"
        /\ ret.val = IF Named(ret.arg[1]) = <<>> THEN Unknown
                     ELSE name[parent[Named(ret.arg[1])[1]]]

\* C14 (as claimed): the root's weight is ignored: collect_weights(max_depth,
\* 0) on the root returns the same list on every tree that differs from this
\* one only in the weight given to the root.
C14_RootWeightIgnored ==
    (ret.op = "collect_weights" /\ ret.st = "returned") =>
        \A w \in Weights :
            CollectWith([weight EXCEPT ![Root] = Rat(w, Den)], Root, ret.arg[1], 0)
                = ret.val

\* How many pairs of the ticker view come from the subtree of a direct child
\* c of the root of a depth-2 tree: its leaves, or c itself when it is a leaf.
TickerPairsOf(c) == IF IsLeaf(c) THEN 1 ELSE Len(children[c])

\* The weights of the ticker view that belong to the i-th child of the root:
\* the view lists the children's subtrees one after the other.
TickerWeightsUnder(i) ==
    LET ch == children[Root]
        before == IntSum([j \in 1..(i - 1) |-> TickerPairsOf(ch[j])])
        tickers == get_ticker_weights(Root)
    IN  [k \in 1..TickerPairsOf(ch[i]) |-> tickers[before + k][2]]

\* C15: on a valid tree of depth 2, get_asset_class_weights() has exactly one
\* pair per direct child of the root, in insertion order, named after the
\* child, and its weight is the sum of the get_ticker_weights() weights of
\* the leaves under that child (of the child itself when it is a leaf).
C15_AssetClassViewCollapses ==
    (/\ ret.op = "collect_weights"
     /\ ret.arg[1] = 1
     /\ TreeIsValid
     /\ TreeDepth = 2) =>
        LET ch == children[Root] IN
        /\ ret.val = get_asset_class_weights(Root)
        /\ Len(ret.val) = Len(ch)
        /\ \A i \in 1..Len(ch) :
            /\ ret.val[i][1] = name[ch[i]]
            /\ ret.val[i][2] = RatSum(TickerWeightsUnder(i))

\* C15's case: a valid depth-2 tree whose asset-class view has been taken,
\* with a class of two tickers and a non-zero weight.
C15_Witness ==
    /\ ret.op = "collect_weights"
    /\ ret.arg[1] = 1
    /\ TreeIsValid
    /\ TreeDepth = 2
    /\ \E i \in 1..Len(children[Root]) :
        /\ Len(children[children[Root][i]]) = 2
        /\ ret.val[i][2] # Zero

\* The leaves of the target tree, in collect_leaves() order.
TargetLeaves == SelectSeq(PreOrder, IsLeaf)

\* C16: the target tree of create_global_allocation() is usable as shipped:
\* validate_weights() is empty; every leaf is at depth 2 and no two leaves
\* share a name; to_df() returns one row per leaf; the ticker weights and the
\* asset-class weights each pass analyze_allocation's isclose(sum, 1) check;
\* and every leaf ticker is found in the taxonomy asset_classes and classified
\* under the name of the leaf's parent in the target tree.
C16_ShippedTreeUsable ==
    Built =>
        /\ validate_weights(Root) = <<>>
        /\ (ret.op = "validate_weights" => ret.val = <<>>)
        /\ TreeDepth = 2
        /\ \A i \in 1..Len(TargetLeaves) : Depth(TargetLeaves[i]) = 2
        /\ \A i, j \in 1..Len(TargetLeaves) :
               name[TargetLeaves[i]] = name[TargetLeaves[j]] => i = j
        /\ ~to_df(Root).raised
        /\ Len(to_df(Root).rows) = Len(TargetLeaves)
        /\ (ret.op = "to_df" => ret.st = "returned")
        /\ IsCloseToOne(AllocSum(get_ticker_weights(Root)))
        /\ IsCloseToOne(AllocSum(get_asset_class_weights(Root)))
        /\ \A i \in 1..Len(TargetLeaves) :
               LET leaf == TargetLeaves[i]
                   r == get_asset_class(asset_classes, name[leaf])
               IN  /\ search(asset_classes, name[leaf]) # None
                   /\ ~r.raised
                   /\ r.val = name[parent[leaf]]
        /\ ret.op = "get_asset_class" =>
               /\ ret.st = "returned"
               /\ \E i \in 1..Len(TargetLeaves) :
                      /\ name[TargetLeaves[i]] = ret.arg[1]
                      /\ name[parent[TargetLeaves[i]]] = ret.val

\* C16's case: both trees are built and a target ticker has been classified.
C16_Witness ==
    /\ Built
    /\ Len(TargetLeaves) = Len(create_global_allocation) - Len(children[Root])
    /\ ret.op = "get_asset_class"
    /\ ret.arg[1] = "Money Market"
    /\ ret.val = "Short-Term"

====
